---- MODULE Spec2Model ----
(***************************************************************************)
(* A model of wps_final_extractor.py: the two-tier text extraction        *)
(* (_extract_with_ole, then _extract_with_binary), the three decoding     *)
(* attempts of _parse_stream_data, the paragraph filter                    *)
(* _extract_meaningful_text, the detector _is_garbled_text and the         *)
(* sentence cleaner _clean_text.                                           *)
(*                                                                         *)
(* A Python str is a sequence of Unicode code points (naturals); a bytes   *)
(* object is a sequence of naturals below 256.  Character classes of the   *)
(* regular expressions are the code point ranges the source writes.        *)
(***************************************************************************)
EXTENDS Integers, Sequences, FiniteSets, TLC

\* ------------------------------------------------------------------------
\* Character classes
\* ------------------------------------------------------------------------

\* [\x00-\x1f], the paragraph separator class of re.split.
IsCtl(c) == c >= 0 /\ c <= 31

\* str.isspace() and the regular expressions' \s (the same table in CPython).
IsSpace(c) ==
    \/ c \in {9, 10, 11, 12, 13, 28, 29, 30, 31, 32, 133, 160, 5760}
    \/ (c >= 8192 /\ c <= 8202)
    \/ c \in {8232, 8233, 8239, 8287, 12288}

\* [\u4e00-\u9fff]
IsCJK(c) == c >= 19968 /\ c <= 40959

\* [a-zA-Z]
IsLatin(c) == (c >= 65 /\ c <= 90) \/ (c >= 97 /\ c <= 122)

\* \d of a str pattern: the decimal digits (ASCII and fullwidth forms here).
IsDigit(c) == (c >= 48 /\ c <= 57) \/ (c >= 65296 /\ c <= 65305)

\* str.isprintable(): false for the control, format, private-use and
\* separator characters other than the ASCII space.
IsPrintable(c) ==
    /\ c >= 32
    /\ ~(c >= 127 /\ c <= 160)
    /\ c # 173
    /\ ~(IsSpace(c) /\ c # 32)
    /\ ~(c >= 8203 /\ c <= 8207)
    /\ ~(c >= 8288 /\ c <= 8303)
    /\ ~(c >= 55296 /\ c <= 63743)
    /\ c # 65279

\* \w of a str pattern: alphanumeric characters and the underscore.
IsWord(c) ==
    \/ IsLatin(c) \/ IsDigit(c) \/ c = 95
    \/ IsCJK(c)
    \/ (c >= 44032 /\ c <= 55203)
    \/ (c >= 65313 /\ c <= 65338) \/ (c >= 65345 /\ c <= 65370)
    \/ (c >= 2160 /\ c <= 2183)

\* re.IGNORECASE on the ASCII letters.
Lower(c) == IF c >= 65 /\ c <= 90 THEN c + 32 ELSE c

\* ------------------------------------------------------------------------
\* str helpers
\* ------------------------------------------------------------------------

SetMin(S) == CHOOSE x \in S : \A y \in S : x <= y
SetMax(S) == CHOOSE x \in S : \A y \in S : x >= y

\* str.strip()
Strip(s) ==
    LET keep == {i \in 1..Len(s) : ~IsSpace(s[i])}
    IN  IF keep = {} THEN <<>> ELSE SubSeq(s, SetMin(keep), SetMax(keep))

\* sep.join(parts)
Join(parts, sep) ==
    LET F[i \in 0..Len(parts)] ==
            IF i = 0 THEN <<>>
            ELSE IF i = 1 THEN parts[1]
            ELSE F[i - 1] \o sep \o parts[i]
    IN  F[Len(parts)]

\* s.endswith(suffix) for a one-character suffix
EndsWith(s, c) == Len(s) > 0 /\ s[Len(s)] = c

\* The pattern `lit` (already lower case) matches at position i of s,
\* letters compared without case.
MatchAtCI(s, lit, i) ==
    /\ i >= 1
    /\ i + Len(lit) - 1 <= Len(s)
    /\ \A k \in 1..Len(lit) : Lower(s[i + k - 1]) = lit[k]

\* re.search(lit, s, re.IGNORECASE) for a literal pattern
ContainsCI(s, lit) == \E i \in 1..Len(s) : MatchAtCI(s, lit, i)

\* '.*' between two positions: any characters except a newline
NoNewline(s, from, to) == \A k \in from..to : s[k] # 10

\* re.search(a.*b, s, re.IGNORECASE)
ContainsSeq2CI(s, a, b) ==
    \E i \in 1..Len(s) : \E j \in 1..Len(s) :
        /\ MatchAtCI(s, a, i)
        /\ j >= i + Len(a)
        /\ MatchAtCI(s, b, j)
        /\ NoNewline(s, i + Len(a), j - 1)

\* re.search(a.*b.*c, s, re.IGNORECASE)
ContainsSeq3CI(s, a, b, c) ==
    \E i \in 1..Len(s) : \E j \in 1..Len(s) : \E k \in 1..Len(s) :
        /\ MatchAtCI(s, a, i)
        /\ j >= i + Len(a)
        /\ MatchAtCI(s, b, j)
        /\ k >= j + Len(b)
        /\ MatchAtCI(s, c, k)
        /\ NoNewline(s, i + Len(a), k - 1)

\* re.split(r'[\x00-\x1f]+', s): the pieces between the maximal runs of
\* control characters, empty leading and trailing pieces included.
SplitCtl(s) ==
    LET n == Len(s)
        Starts(p) == p = 1 \/ (IsCtl(s[p - 1]) /\ (p = n + 1 \/ ~IsCtl(s[p])))
        Stop(p) == SetMin({j \in p..n : IsCtl(s[j])} \cup {n + 1})
        pieces == [p \in 1..(n + 1) |->
                      IF Starts(p) THEN SubSeq(s, p, Stop(p) - 1) ELSE <<-1>>]
    IN  SelectSeq(pieces, LAMBDA x : x # <<-1>>)

\* ------------------------------------------------------------------------
\* _is_metadata
\* ------------------------------------------------------------------------

\* [0-9@#$%^&*()_+=\[\]{}|\\:";\'<>?,./`~-]
IsMetaSymbol(c) ==
    \/ (c >= 48 /\ c <= 57)
    \/ c \in {34, 35, 36, 37, 38, 39, 40, 41, 42, 43, 44, 45, 46, 47, 58, 59,
              60, 61, 62, 63, 64, 91, 92, 93, 94, 95, 96, 123, 124, 125, 126}

\* [A-Za-z0-9@#$%^&*()_+=\[\]{}|\\:";\'<>?,./`~-]
IsMetaToken(c) == IsLatin(c) \/ IsMetaSymbol(c)

\* The literal signatures of metadata_patterns, in lower case.
MetadataLiterals ==
    { <<99, 106, 111, 106, 112, 106, 113, 106>>,
      <<114, 111, 111, 116, 32, 101, 110, 116, 114, 121>>,
      <<115, 117, 109, 109, 97, 114, 121, 105, 110, 102, 111, 114, 109, 97,
        116, 105, 111, 110>>,
      <<100, 111, 99, 117, 109, 101, 110, 116, 115, 117, 109, 109, 97, 114,
        121, 105, 110, 102, 111, 114, 109, 97, 116, 105, 111, 110>>,
      <<107, 115, 111, 112, 114, 111, 100, 117, 99, 116, 98, 117, 105, 108,
        100, 118, 101, 114>>,
      <<116, 105, 109, 101, 115, 32, 110, 101, 119, 32, 114, 111, 109, 97,
        110>>,
      <<99, 97, 108, 105, 98, 114, 105>>,
      <<97, 114, 105, 97, 108>>,
      <<99, 111, 117, 114, 105, 101, 114, 32, 110, 101, 119>> }

\* ^\s*[class]+\s*$ (lo = 1, no upper limit) and ^\s*[class]{1,3}\s*$:
\* the class and \s are disjoint, so the match is the stripped text.
MatchesSymbolsOnly(s) ==
    LET t == Strip(s)
    IN  Len(t) >= 1 /\ \A i \in 1..Len(t) : IsMetaSymbol(t[i])

MatchesShortToken(s) ==
    LET t == Strip(s)
    IN  Len(t) >= 1 /\ Len(t) <= 3 /\ \A i \in 1..Len(t) : IsMetaToken(t[i])

_is_metadata(text) ==
    \/ \E lit \in MetadataLiterals : ContainsCI(text, lit)
    \/ ContainsSeq2CI(text, <<104, 116, 109, 108>>, <<20195, 30721>>)
    \/ ContainsSeq3CI(text, <<109, 104>>, <<115, 104>>, <<110, 104, 116, 104>>)
    \/ MatchesSymbolsOnly(text)
    \/ MatchesShortToken(text)

\* ------------------------------------------------------------------------
\* _extract_meaningful_text
\* ------------------------------------------------------------------------

\* Paragraphs shorter than this (after strip) are dropped.
MinParagraphLen == 5

PrintableOrBlank(c) == IsPrintable(c) \/ c \in {10, 9, 32}

HasChinese(s) == \E i \in 1..Len(s) : IsCJK(s[i])

\* re.search(r'[a-zA-Z]{2,}', s)
HasEnglishWords(s) ==
    \E i \in 1..(Len(s) - 1) : IsLatin(s[i]) /\ IsLatin(s[i + 1])

\* One iteration of the loop over the paragraphs: the segment appended for
\* this paragraph, or <<>> when the paragraph is skipped.  (An appended
\* segment is never empty.)
MeaningfulSegment(paragraph) ==
    LET p == Strip(paragraph)
        clean_paragraph == SelectSeq(p, PrintableOrBlank)
    IN  IF Len(p) < MinParagraphLen THEN <<>>
        ELSE IF Strip(clean_paragraph) = <<>> THEN <<>>
        ELSE IF _is_metadata(clean_paragraph) THEN <<>>
        ELSE IF HasChinese(clean_paragraph) \/ HasEnglishWords(clean_paragraph)
             THEN clean_paragraph
        ELSE <<>>

_extract_meaningful_text(text) ==
    IF text = <<>> \/ Len(Strip(text)) < MinParagraphLen THEN <<>>
    ELSE LET paragraphs == SplitCtl(text)
             segs == [i \in 1..Len(paragraphs) |->
                         MeaningfulSegment(paragraphs[i])]
             meaningful_segments == SelectSeq(segs, LAMBDA x : x # <<>>)
         IN  Join(meaningful_segments, <<10>>)

\* ------------------------------------------------------------------------
\* _is_garbled_text
\* ------------------------------------------------------------------------

\* Texts shorter than this are garbled.
MinGarbledLen == 3

\* More special symbols than this make a text garbled.
MaxSpecialChars == 3

\* [`\\/_<>{}|~]
IsSpecial(c) == c \in {96, 92, 47, 95, 60, 62, 123, 125, 124, 126}

\* The characters of the last garbled pattern (known mis-decoded glyphs).
GarbledGlyphs ==
    {20143, 20428, 21031, 21065, 22339, 24305, 24654, 25583, 25853, 26146,
     27765, 28168, 28923, 31583, 31595, 34209, 34515, 34555, 34786, 35322,
     35504, 35570, 36092, 37520, 37656, 38489, 39087, 39351, 39732, 39760,
     39914, 40217, 40286, 40853}

\* len(re.findall(r'[class]', s)): `hits` marks the characters of the class.
CountTrue(hits) == Cardinality({i \in 1..Len(hits) : hits[i]})

\* RatioTooLow with the boundary on the wrong side (chinese_ratio <= 0.4).
RatioTooLowOrEqual(chinese_chars, total_chars) ==
    10 * chinese_chars <= 4 * total_chars

\* chinese_ratio < 0.4 with chinese_ratio = chinese_chars / total_chars and
\* total_chars > 0.  Both sides are the correctly rounded doubles of the
\* rationals, so the comparison is the one of chinese_chars / total_chars
\* with 4 / 10.
RatioTooLow(chinese_chars, total_chars) == 10 * chinese_chars < 4 * total_chars

\* [A-Za-z]{2,}\d+[A-Za-z]{2,}
LetterDigitLetter(s) ==
    \E i \in 2..Len(s) : \E j \in (i + 2)..(Len(s) - 1) :
        /\ IsLatin(s[i - 1]) /\ IsLatin(s[i])
        /\ \A k \in (i + 1)..(j - 1) : IsDigit(s[k])
        /\ IsLatin(s[j]) /\ IsLatin(s[j + 1])

\* [`\\/_<>{}|~]{2,}
SpecialRun(s) ==
    \E i \in 1..(Len(s) - 1) : IsSpecial(s[i]) /\ IsSpecial(s[i + 1])

\* [\u4e00-\u9fff][A-Za-z]{1}[\u4e00-\u9fff][A-Za-z]{1}
ChineseLatinMix(s) ==
    \E i \in 1..(Len(s) - 3) :
        IsCJK(s[i]) /\ IsLatin(s[i + 1]) /\ IsCJK(s[i + 2]) /\ IsLatin(s[i + 3])

HasGarbledGlyph(s) == \E i \in 1..Len(s) : s[i] \in GarbledGlyphs

_is_garbled_text(text) ==
    IF text = <<>> \/ Len(text) < MinGarbledLen THEN TRUE
    ELSE LET chinese_chars == CountTrue([i \in 1..Len(text) |-> IsCJK(text[i])])
             total_chars == CountTrue([i \in 1..Len(text) |-> ~IsSpace(text[i])])
             special_chars == CountTrue([i \in 1..Len(text) |-> IsSpecial(text[i])])
         IN  IF total_chars = 0 THEN TRUE
             ELSE IF RatioTooLow(chinese_chars, total_chars) THEN TRUE
             ELSE IF special_chars > MaxSpecialChars THEN TRUE
             ELSE \/ LetterDigitLetter(text)
                  \/ SpecialRun(text)
                  \/ ChineseLatinMix(text)
                  \/ HasGarbledGlyph(text)

\* ------------------------------------------------------------------------
\* _clean_text
\* ------------------------------------------------------------------------

\* A cleaned sentence must be longer than this.
MinSentenceLen == 8

\* [\x00-\x08\x0b\x0c\x0e-\x1f\x7f-\x9f]
IsStripped(c) ==
    \/ (c >= 0 /\ c <= 8) \/ c = 11 \/ c = 12
    \/ (c >= 14 /\ c <= 31) \/ (c >= 127 /\ c <= 159)

\* IsSentenceEnd without the fullwidth terminal characters ([.!?]).
IsSentenceEndAscii(c) == c \in {46, 33, 63}

\* [\u3002\uff01\uff1f.!?]
IsSentenceEnd(c) == c \in {12290, 65281, 65311, 46, 33, 63}

\* [.,!?;:]
IsPunct(c) == c \in {46, 44, 33, 63, 59, 58}

\* The complement of [^\u4e00-\u9fff\u0020-\u007e\u3000-\u303f\uff00-\uffef\s]
IsKept(c) ==
    \/ IsCJK(c)
    \/ (c >= 32 /\ c <= 126)
    \/ (c >= 12288 /\ c <= 12351)
    \/ (c >= 65280 /\ c <= 65519)
    \/ IsSpace(c)

\* re.split(r'[\u3002\uff01\uff1f.!?]', s): every terminal character ends a piece.
SplitSentences(s) ==
    LET n == Len(s)
        Starts(p) == p = 1 \/ IsSentenceEnd(s[p - 1])
        Stop(p) == SetMin({j \in p..n : IsSentenceEnd(s[j])} \cup {n + 1})
        pieces == [p \in 1..(n + 1) |->
                      IF Starts(p) THEN SubSeq(s, p, Stop(p) - 1) ELSE <<-1>>]
    IN  SelectSeq(pieces, LAMBDA x : x # <<-1>>)

\* re.sub(r'[class]+', r, s): every maximal run of the class becomes r;
\* `hits` marks the characters of the class.
CollapseRuns(s, hits, r) ==
    LET out == [i \in 1..Len(s) |->
                   IF ~hits[i] THEN s[i]
                   ELSE IF i > 1 /\ hits[i - 1] THEN -1
                   ELSE r]
    IN  SelectSeq(out, LAMBDA x : x # -1)

\* re.sub(r'[class]{2,}', r, s): every maximal run of two or more becomes r.
CollapseLongRuns(s, hits, r) ==
    LET InLongRun(i) == \/ (i > 1 /\ hits[i - 1])
                        \/ (i < Len(s) /\ hits[i + 1])
        out == [i \in 1..Len(s) |->
                   IF ~hits[i] \/ ~InLongRun(i) THEN s[i]
                   ELSE IF i > 1 /\ hits[i - 1] THEN -1
                   ELSE r]
    IN  SelectSeq(out, LAMBDA x : x # -1)

\* re.sub(r'ph333\s*', '', s): leftmost matches, each with the whitespace
\* that follows it.
RemoveNoiseToken(s) ==
    LET lit == <<112, 104, 51, 51, 51>>
        n == Len(s)
        AtLit(i) == /\ i >= 1
                    /\ i + Len(lit) - 1 <= n
                    /\ \A k \in 1..Len(lit) : s[i + k - 1] = lit[k]
        \* position j lies in the match that starts at i
        InMatch(i, j) == /\ AtLit(i)
                         /\ i <= j
                         /\ \A k \in (i + Len(lit))..j : IsSpace(s[k])
        out == [j \in 1..n |->
                   IF \E i \in 1..j : InMatch(i, j) THEN -1 ELSE s[j]]
    IN  SelectSeq(out, LAMBDA x : x # -1)

\* re.sub(r'\b[A-Za-z]{1}\b', '', s): a Latin letter with no word character
\* on either side.
RemoveSingleLetters(s) ==
    LET Isolated(i) == /\ IsLatin(s[i])
                       /\ (i = 1 \/ ~IsWord(s[i - 1]))
                       /\ (i = Len(s) \/ ~IsWord(s[i + 1]))
        out == [i \in 1..Len(s) |-> IF Isolated(i) THEN -1 ELSE s[i]]
    IN  SelectSeq(out, LAMBDA x : x # -1)

\* The "basic cleaning" of one part that contains Chinese.
CleanPart(part) ==
    LET a == CollapseRuns(part, [i \in 1..Len(part) |-> ~IsKept(part[i])], 32)
        b == RemoveNoiseToken(a)
        c == RemoveSingleLetters(b)
    IN  Strip(CollapseRuns(c, [i \in 1..Len(c) |-> IsSpace(c[i])], 32))

\* The test that admits a cleaned part to `sentences`.
AcceptSentence(cleaned_part) ==
    ~_is_garbled_text(cleaned_part) /\ Len(cleaned_part) > MinSentenceLen

\* The loop over the parts: the list `sentences`.
Sentences(text) ==
    LET cleaned == SelectSeq(text, LAMBDA c : ~IsStripped(c))
        parts == SplitSentences(cleaned)
        one(i) == LET part == Strip(parts[i])
                  IN  IF part = <<>> \/ ~HasChinese(part) THEN <<>>
                      ELSE LET cleaned_part == CleanPart(part)
                           IN  IF AcceptSentence(cleaned_part)
                               THEN cleaned_part ELSE <<>>
        all == [i \in 1..Len(parts) |-> one(i)]
    IN  SelectSeq(all, LAMBDA x : x # <<>>)

\* The "final cleaning" of the joined result.
FinalPass(result) ==
    LET a == CollapseRuns(result,
                          [i \in 1..Len(result) |-> IsSpace(result[i])], 32)
    IN  Strip(CollapseLongRuns(a, [i \in 1..Len(a) |-> IsPunct(a[i])], 46))

_clean_text(text) ==
    IF text = <<>> THEN <<>>
    ELSE LET joined == Join(Sentences(text), <<46, 32>>)
             result == IF joined # <<>> /\ ~EndsWith(joined, 46)
                       THEN Append(joined, 46) ELSE joined
         IN  FinalPass(result)

\* ------------------------------------------------------------------------
\* bytes.decode(encoding, errors='ignore') and _parse_stream_data
\* ------------------------------------------------------------------------

\* data.decode('utf-16le', errors='ignore'): one code unit per byte pair, a
\* surrogate pair gives one character, a lone surrogate and an odd trailing
\* byte are dropped.
DecodeUtf16le(data) ==
    LET n == Len(data) \div 2
        unit(i) == data[2 * i - 1] + 256 * data[2 * i]
        IsHigh(u) == u >= 55296 /\ u <= 56319
        IsLow(u) == u >= 56320 /\ u <= 57343
        out == [i \in 1..n |->
                   IF IsHigh(unit(i)) /\ i < n /\ IsLow(unit(i + 1))
                   THEN 65536 + (unit(i) - 55296) * 1024 + (unit(i + 1) - 56320)
                   ELSE IF IsHigh(unit(i)) \/ IsLow(unit(i)) THEN -1
                   ELSE unit(i)]
    IN  SelectSeq(out, LAMBDA x : x # -1)

\* data.decode('utf-8', errors='ignore'): a well-formed sequence gives its
\* character; an ill-formed one is dropped up to the first byte that cannot
\* continue it.
DecodeUtf8(data) ==
    LET n == Len(data)
        Need(b) == IF b >= 194 /\ b <= 223 THEN 1
                   ELSE IF b >= 224 /\ b <= 239 THEN 2
                   ELSE IF b >= 240 /\ b <= 244 THEN 3
                   ELSE 0
        \* the range of the k-th continuation byte after lead byte b
        ContLo(b, k) == IF k = 1 /\ b = 224 THEN 160
                        ELSE IF k = 1 /\ b = 240 THEN 144 ELSE 128
        ContHi(b, k) == IF k = 1 /\ b = 237 THEN 159
                        ELSE IF k = 1 /\ b = 244 THEN 143 ELSE 191
        ContOk(i, k) == /\ i + k <= n
                        /\ data[i + k] >= ContLo(data[i], k)
                        /\ data[i + k] <= ContHi(data[i], k)
        \* how many continuation bytes of the sequence starting at i are good
        Good(i) == IF ~ContOk(i, 1) THEN 0
                   ELSE IF Need(data[i]) = 1 \/ ~ContOk(i, 2) THEN 1
                   ELSE IF Need(data[i]) = 2 \/ ~ContOk(i, 3) THEN 2
                   ELSE 3
        Value(i) ==
            LET b == data[i]
            IN  IF Need(b) = 1 THEN (b - 192) * 64 + (data[i + 1] - 128)
                ELSE IF Need(b) = 2
                     THEN (b - 224) * 4096 + (data[i + 1] - 128) * 64
                          + (data[i + 2] - 128)
                ELSE (b - 240) * 262144 + (data[i + 1] - 128) * 4096
                     + (data[i + 2] - 128) * 64 + (data[i + 3] - 128)
        \* A lead byte is never a continuation byte, so every lead byte
        \* starts a sequence; a continuation byte gives nothing by itself.
        out == [i \in 1..n |->
                   IF data[i] < 128 THEN data[i]
                   ELSE IF Need(data[i]) > 0 /\ Good(i) = Need(data[i])
                        THEN Value(i)
                   ELSE -1]
    IN  SelectSeq(out, LAMBDA x : x # -1)

\* The GBK code page on the two-byte sequences that the byte strings of
\* ByteInputs contain (0: no character).
GbkChar(lead, trail) ==
    CASE lead = 144 /\ trail = 209 -> 24844
      [] lead = 154 /\ trail = 168 -> 27587
      [] lead = 155 /\ trail = 82 -> 27771
      [] lead = 186 /\ trail = 78 -> 31704
      [] lead = 195 /\ trail = 95 -> 32968
      [] lead = 208 /\ trail = 207 -> 37026
      [] lead = 224 /\ trail = 161 -> 21815
      [] lead = 225 /\ trail = 186 -> 23735
      [] lead = 229 /\ trail = 93 -> 37671
      [] lead = 235 /\ trail = 95 -> 38583
      [] lead = 253 /\ trail = 128 -> 40825
      [] OTHER -> 0

\* data.decode('gbk', errors='ignore'): a byte below 0x80 is itself, a lead
\* byte 0x81..0xFE with a trail byte 0x40..0xFE (not 0x7F) is looked up, and
\* a byte that starts no character is dropped alone.
DecodeGbk(data) ==
    LET n == Len(data)
        IsLead(b) == b >= 129 /\ b <= 254
        IsTrail(b) == b >= 64 /\ b <= 254 /\ b # 127
        Pair(i) == IF i < n /\ IsLead(data[i]) /\ IsTrail(data[i + 1])
                   THEN GbkChar(data[i], data[i + 1]) ELSE 0
        \* The bytes before i that start a pair are consumed two by two from
        \* the byte after the last one that starts none.
        LastFree(i) == SetMax({j \in 1..(i - 1) : Pair(j) = 0} \cup {0})
        IsStart(i) == (i - (LastFree(i) + 1)) % 2 = 0
        out == [i \in 1..n |->
                   IF ~IsStart(i) THEN -1
                   ELSE IF data[i] < 128 THEN data[i]
                   ELSE IF Pair(i) # 0 THEN Pair(i)
                   ELSE -1]
    IN  SelectSeq(out, LAMBDA x : x # -1)

\* The three decoding attempts, in the order of the source; the non-empty
\* filtered texts are joined with a newline.
_parse_stream_data(data) ==
    LET text_segments ==
            SelectSeq(<< _extract_meaningful_text(DecodeUtf16le(data)),
                         _extract_meaningful_text(DecodeUtf8(data)),
                         _extract_meaningful_text(DecodeGbk(data)) >>,
                      LAMBDA x : x # <<>>)
    IN  Join(text_segments, <<10>>)

\* ------------------------------------------------------------------------
\* extract_text_from_wps_stream and _extract_with_ole
\* ------------------------------------------------------------------------

\* The container-aware text must be longer than this (after strip).
OleMinLen == 20

\* The raw-binary text must be longer than this (after strip).
BinaryMinLen == 10

\* The fixed message of line 34.
NoTextMessage ==
    <<26410, 33021, 20174, 87, 80, 83, 25991, 20214, 20013, 25552, 21462,
      21040, 26377, 25928, 25991, 26412, 20869, 23481>>

\* The prefix of the message of line 37.
FailurePrefix == <<25552, 21462, 22833, 36133, 58, 32>>

\* str(e) of the exception that reaches line 36.
ExceptionText == <<101, 114, 114, 111, 114>>

\* The signature olefile.isOleFile compares the first bytes of the file with.
MAGIC == <<208, 207, 17, 224, 161, 177, 26, 225>>

isOleFile(data) == Len(data) >= Len(MAGIC) /\ SubSeq(data, 1, Len(MAGIC)) = MAGIC

\* OleExceptReturn surfacing the error as a message.
OleExceptReturnsMessage == FailurePrefix \o ExceptionText

\* `return ""` of the handlers of lines 73-76.
OleExceptReturn == <<>>

\* Tier1Accepts with >= for >.
Tier1AcceptsAtLeast(text) == text # <<>> /\ Len(Strip(text)) >= OleMinLen

\* The test of line 26.
Tier1Accepts(text) == text # <<>> /\ Len(Strip(text)) > OleMinLen

\* Tier2Accepts with >= for >.
Tier2AcceptsAtLeast(text) == text # <<>> /\ Len(Strip(text)) >= BinaryMinLen

\* The test of line 31.
Tier2Accepts(text) == text # <<>> /\ Len(Strip(text)) > BinaryMinLen

\* CleanOutcome without the handler of lines 36-37: the exception leaves
\* the call.
CleanOutcomeUncaught(text, failed) ==
    IF failed THEN [pc |-> "raised", result |-> <<>>]
    ELSE [pc |-> "done", result |-> _clean_text(text)]

\* `return _clean_text(...)` inside the try of line 23: an exception raised
\* by the cleaner is turned into the failure message by line 36.
CleanOutcome(text, failed) ==
    IF failed THEN [pc |-> "done", result |-> FailurePrefix \o ExceptionText]
    ELSE [pc |-> "done", result |-> _clean_text(text)]

\* _extract_with_binary: the whole input is parsed; any exception gives "".
BinaryText(file_data, failed) ==
    IF failed THEN <<>> ELSE _parse_stream_data(file_data)

VARIABLES
    byte_stream,   \* the argument of extract_text_from_wps_stream
    olefile_ok,    \* `import olefile` succeeds
    directory,     \* what OleFileIO finds in the file: "none" (no container),
                   \* "truncated", "no_stream" or "stream"
    stream_data,   \* the bytes of the WordDocument stream
    fault,         \* the operation that raises in this call ("none": none)
    pc,            \* the position in the call
    tmp_created,   \* NamedTemporaryFile has created the file
    tmp_exists,    \* the temporary file is on disk
    tmp_data,      \* the bytes written to the temporary file
    text_results,  \* the list of line 54
    pending,       \* the return value or exception the finally block passes on
    ole_text,      \* line 25
    binary_ran,    \* _extract_with_binary has been called
    binary_text,   \* line 30
    accepted,      \* the text handed to _clean_text
    result,        \* the value returned to the caller
    fn,            \* the function under direct call (SpecFn)
    arg,           \* its first argument
    rets           \* its successive results, each call fed the last result

vars == <<byte_stream, olefile_ok, directory, stream_data, fault, pc,
          tmp_created, tmp_exists, tmp_data, text_results, pending, ole_text,
          binary_ran, binary_text, accepted, result, fn, arg, rets>>

env == <<byte_stream, olefile_ok, directory, stream_data, fault>>
direct == <<fn, arg, rets>>

\* ---- the inputs of the model --------------------------------------------

\* The longest run of zero bytes given as input.
MaxZeros == 100

\* The longest run of U+80FF given as UTF-16LE input.  Its bytes FF 80 are
\* characters in neither UTF-8 nor GBK, so the parsed text has exactly as
\* many characters as the run (none below MinParagraphLen).
MaxRep == 21

Zeros(n) == [i \in 1..n |-> 0]

RepBytes(k) == [i \in 1..(2 * k) |-> IF i % 2 = 1 THEN 255 ELSE 128]

\* The UTF-16LE bytes of the two-sentence text of the end-to-end example.
E2EBytes ==
    <<186, 78, 229, 93, 122, 102, 253, 128, 128, 98, 47, 103, 99, 107, 40,
      87, 235, 95, 31, 144, 209, 83, 85, 92, 2, 48, 58, 103, 104, 86, 102,
      91, 96, 78, 47, 102, 118, 81, 56, 104, 195, 95, 113, 154, 168, 82,
      155, 82, 2, 48>>

ByteInputs == {Zeros(MaxZeros), E2EBytes} \cup {RepBytes(k) : k \in 0..MaxRep}

Directories == {"none", "truncated", "no_stream", "stream"}

Faults == {"none", "mktemp", "write", "isOleFile", "OleFileIO", "openstream",
           "close", "unlink", "binary", "clean"}

\* ---- the call ----------------------------------------------------------------

Init ==
    /\ \E payload \in ByteInputs : \E d \in Directories :
          /\ directory = d
          /\ byte_stream = IF d = "none" THEN payload ELSE MAGIC \o payload
          /\ stream_data = IF d = "stream" THEN payload ELSE <<>>
    /\ olefile_ok \in BOOLEAN
    /\ fault \in Faults
    /\ pc = "start"
    /\ tmp_created = FALSE
    /\ tmp_exists = FALSE
    /\ tmp_data = <<>>
    /\ text_results = <<>>
    /\ pending = [kind |-> "none", value |-> <<>>]
    /\ ole_text = <<>>
    /\ binary_ran = FALSE
    /\ binary_text = <<>>
    /\ accepted = <<>>
    /\ result = <<>>
    /\ fn = "extract"
    /\ arg = <<>>
    /\ rets = <<>>

\* An exception inside the try of line 49: the finally block runs next.
Raise == [kind |-> "raise", value |-> <<>>]
Return(v) == [kind |-> "return", value |-> v]

\* Lines 25, 41-42, 73-74.
OleImport ==
    /\ pc = "start"
    /\ IF olefile_ok
       THEN pc' = "ole_mktemp" /\ UNCHANGED ole_text
       ELSE pc' = "tier1" /\ ole_text' = OleExceptReturn
    /\ UNCHANGED <<env, tmp_created, tmp_exists, tmp_data, text_results,
                   pending, binary_ran, binary_text, accepted, result, direct>>

\* Line 45: the file is created (delete=False); a failure to create it is
\* handled by line 75.
OleCreateTemp ==
    /\ pc = "ole_mktemp"
    /\ IF fault = "mktemp"
       THEN /\ pc' = "tier1"
            /\ ole_text' = OleExceptReturn
            /\ UNCHANGED <<tmp_created, tmp_exists>>
       ELSE /\ pc' = "ole_write"
            /\ tmp_created' = TRUE
            /\ tmp_exists' = TRUE
            /\ UNCHANGED ole_text
    /\ UNCHANGED <<env, tmp_data, text_results, pending, binary_ran,
                   binary_text, accepted, result, direct>>

\* Lines 46-47: a failing write leaves the with block, which closes the file
\* and keeps it, and the exception goes to line 75: the try of line 49 has
\* not been entered.
OleWrite ==
    /\ pc = "ole_write"
    /\ IF fault = "write"
       THEN /\ pc' = "tier1"
            /\ ole_text' = OleExceptReturn
            /\ UNCHANGED tmp_data
       ELSE /\ pc' = "ole_isole"
            /\ tmp_data' = byte_stream
            /\ UNCHANGED ole_text
    /\ UNCHANGED <<env, tmp_created, tmp_exists, text_results, pending,
                   binary_ran, binary_text, accepted, result, direct>>

\* Lines 50-51.
OleIsOleFile ==
    /\ pc = "ole_isole"
    /\ IF fault = "isOleFile"
       THEN pc' = "ole_finally" /\ pending' = Raise
       ELSE IF ~isOleFile(tmp_data)
       THEN pc' = "ole_finally" /\ pending' = Return(<<>>)
       ELSE pc' = "ole_open" /\ UNCHANGED pending
    /\ UNCHANGED <<env, tmp_created, tmp_exists, tmp_data, text_results,
                   ole_text, binary_ran, binary_text, accepted, result, direct>>

\* Lines 53-54: OleFileIO raises on a file it cannot parse.
OleOpen ==
    /\ pc = "ole_open"
    /\ IF fault = "OleFileIO" \/ directory = "truncated"
       THEN pc' = "ole_finally" /\ pending' = Raise /\ UNCHANGED text_results
       ELSE pc' = "ole_stream" /\ text_results' = <<>> /\ UNCHANGED pending
    /\ UNCHANGED <<env, tmp_created, tmp_exists, tmp_data, ole_text,
                   binary_ran, binary_text, accepted, result, direct>>

\* Lines 57-63.
OleReadStream ==
    /\ pc = "ole_stream"
    /\ IF directory # "stream"
       THEN pc' = "ole_close" /\ UNCHANGED <<text_results, pending>>
       ELSE IF fault = "openstream"
       THEN pc' = "ole_finally" /\ pending' = Raise /\ UNCHANGED text_results
       ELSE LET text == _parse_stream_data(stream_data)
            IN  /\ pc' = "ole_close"
                /\ text_results' = IF text # <<>>
                                   THEN Append(text_results, text)
                                   ELSE text_results
                /\ UNCHANGED pending
    /\ UNCHANGED <<env, tmp_created, tmp_exists, tmp_data, ole_text,
                   binary_ran, binary_text, accepted, result, direct>>

\* Lines 65-66.
OleClose ==
    /\ pc = "ole_close"
    /\ pc' = "ole_finally"
    /\ pending' = IF fault = "close" THEN Raise
                  ELSE Return(Join(text_results, <<10>>))
    /\ UNCHANGED <<env, tmp_created, tmp_exists, tmp_data, text_results,
                   ole_text, binary_ran, binary_text, accepted, result, direct>>

\* Lines 68-76: the file is removed, then the pending return value is
\* returned, or the pending exception (or the one os.unlink raises) is
\* handled by line 75.
OleFinally ==
    /\ pc = "ole_finally"
    /\ pc' = "tier1"
    /\ IF tmp_exists /\ fault = "unlink"
       THEN ole_text' = OleExceptReturn /\ UNCHANGED tmp_exists
       ELSE /\ tmp_exists' = FALSE
            /\ ole_text' = IF pending.kind = "return" THEN pending.value
                           ELSE OleExceptReturn
    /\ UNCHANGED <<env, tmp_created, tmp_data, text_results, pending,
                   binary_ran, binary_text, accepted, result, direct>>

\* Lines 26-27.
Tier1Check ==
    /\ pc = "tier1"
    /\ IF Tier1Accepts(ole_text)
       THEN pc' = "clean" /\ accepted' = ole_text
       ELSE pc' = "binary" /\ UNCHANGED accepted
    /\ UNCHANGED <<env, tmp_created, tmp_exists, tmp_data, text_results,
                   pending, ole_text, binary_ran, binary_text, result, direct>>

\* Lines 30, 78-83.
Binary ==
    /\ pc = "binary"
    /\ pc' = "tier2"
    /\ binary_ran' = TRUE
    /\ binary_text' = BinaryText(byte_stream, fault = "binary")
    /\ UNCHANGED <<env, tmp_created, tmp_exists, tmp_data, text_results,
                   pending, ole_text, accepted, result, direct>>

\* Lines 31-34.
Tier2Check ==
    /\ pc = "tier2"
    /\ IF Tier2Accepts(binary_text)
       THEN pc' = "clean" /\ accepted' = binary_text /\ UNCHANGED result
       ELSE pc' = "done" /\ result' = NoTextMessage /\ UNCHANGED accepted
    /\ UNCHANGED <<env, tmp_created, tmp_exists, tmp_data, text_results,
                   pending, ole_text, binary_ran, binary_text, direct>>

\* Lines 27 and 32, with the handler of lines 36-37.
Clean ==
    /\ pc = "clean"
    /\ LET out == CleanOutcome(accepted, fault = "clean")
       IN  pc' = out.pc /\ result' = out.result
    /\ UNCHANGED <<env, tmp_created, tmp_exists, tmp_data, text_results,
                   pending, ole_text, binary_ran, binary_text, accepted,
                   direct>>

Next ==
    \/ OleImport
    \/ OleCreateTemp
    \/ OleWrite
    \/ OleIsOleFile
    \/ OleOpen
    \/ OleReadStream
    \/ OleClose
    \/ OleFinally
    \/ Tier1Check
    \/ Binary
    \/ Tier2Check
    \/ Clean

Spec == Init /\ [][Next]_vars

\* ------------------------------------------------------------------------
\* Direct calls of _clean_text, _extract_meaningful_text, _is_garbled_text
\* ------------------------------------------------------------------------

\* The number of pieces a text given to a direct call is made of.
MaxTokens == 3

\* How many times a function is applied, each time to its last result.
MaxCalls == 2

\* The largest numbers of ideographs and of other characters in the small
\* texts given to _is_garbled_text, and the length of the long ones.
MaxChinese == 4
MaxOther == 8
BigTotal == 100

\* The pieces: nine ideographs, four ideographs, ",,", ".", " ", "abcd",
\* U+007F and a newline.
Tokens ==
    { <<20154, 24037, 26234, 33021, 25216, 26415, 27491, 22312, 24555>>,
      <<20154, 24037, 26234, 33021>>,
      <<44, 44>>, <<46>>, <<32>>, <<97, 98, 99, 100>>, <<127>>, <<10>> }

Flatten(ts) ==
    LET F[i \in 0..Len(ts)] == IF i = 0 THEN <<>> ELSE F[i - 1] \o ts[i]
    IN  F[Len(ts)]

Texts == {Flatten(ts) : ts \in UNION {[1..k -> Tokens] : k \in 1..MaxTokens}}

\* c ideographs followed by m copies of another character.
Mix(c, m, filler) == [i \in 1..(c + m) |-> IF i <= c THEN 20154 ELSE filler]

GarbledInputs ==
    {Mix(c, m, f) : c \in 0..MaxChinese, m \in 0..MaxOther,
                    f \in {49, 97, 32, 95}}
    \cup {Mix(c, BigTotal - c, 49) :
             c \in ((4 * BigTotal) \div 10 - 2)..((4 * BigTotal) \div 10 + 1)}

InitFn ==
    /\ \/ fn \in {"clean", "filter"} /\ arg \in Texts
       \/ fn = "garbled" /\ arg \in GarbledInputs
    /\ rets = <<>>
    /\ byte_stream = <<>>
    /\ olefile_ok = FALSE
    /\ directory = "none"
    /\ stream_data = <<>>
    /\ fault = "none"
    /\ pc = "call"
    /\ tmp_created = FALSE
    /\ tmp_exists = FALSE
    /\ tmp_data = <<>>
    /\ text_results = <<>>
    /\ pending = [kind |-> "none", value |-> <<>>]
    /\ ole_text = <<>>
    /\ binary_ran = FALSE
    /\ binary_text = <<>>
    /\ accepted = <<>>
    /\ result = <<>>

extract == <<env, pc, tmp_created, tmp_exists, tmp_data, text_results,
             pending, ole_text, binary_ran, binary_text, accepted, result>>

\* The text the next call is given.
CallArg == IF rets = <<>> THEN arg ELSE rets[Len(rets)]

CallCleanText ==
    /\ fn = "clean"
    /\ Len(rets) < MaxCalls
    /\ rets' = Append(rets, _clean_text(CallArg))
    /\ UNCHANGED <<extract, fn, arg>>

CallMeaningfulText ==
    /\ fn = "filter"
    /\ Len(rets) < MaxCalls
    /\ rets' = Append(rets, _extract_meaningful_text(CallArg))
    /\ UNCHANGED <<extract, fn, arg>>

CallGarbled ==
    /\ fn = "garbled"
    /\ rets = <<>>
    /\ rets' = <<_is_garbled_text(arg)>>
    /\ UNCHANGED <<extract, fn, arg>>

NextFn ==
    \/ CallCleanText
    \/ CallMeaningfulText
    \/ CallGarbled

SpecFn == InitFn /\ [][NextFn]_vars

\* ------------------------------------------------------------------------
\* Properties
\* ------------------------------------------------------------------------

IsString(s) == DOMAIN s = 1..Len(s) /\ \A i \in 1..Len(s) : s[i] \in Nat

FailureMessage == FailurePrefix \o ExceptionText

AllZero(data) == \A i \in 1..Len(data) : data[i] = 0

\* The positions at which an action of Next is enabled: each action is
\* guarded by its position alone.
CanStep ==
    pc \in {"start", "ole_mktemp", "ole_write", "ole_isole", "ole_open",
            "ole_stream", "ole_close", "ole_finally", "tier1", "binary",
            "tier2", "clean"}

\* The number of steps a call at this position can still take.
StepsLeft(p) ==
    CASE p = "start" -> 12
      [] p = "ole_mktemp" -> 11
      [] p = "ole_write" -> 10
      [] p = "ole_isole" -> 9
      [] p = "ole_open" -> 8
      [] p = "ole_stream" -> 7
      [] p = "ole_close" -> 6
      [] p = "ole_finally" -> 5
      [] p = "tier1" -> 4
      [] p = "binary" -> 3
      [] p = "tier2" -> 2
      [] p = "clean" -> 1
      [] OTHER -> 0

\* C1: every call of extract_text_from_wps_stream ends by returning a string
\* (the cleaned text, the fixed message or the failure message), whatever
\* operation fails on the way: the call is never left by an exception, it
\* can take a step until it has returned, every step brings it closer to
\* the return, and what it returns is one of the three strings.
Totality ==
    /\ [](/\ pc # "raised"
          /\ pc = "done" \/ CanStep
          /\ pc = "done" =>
                /\ IsString(result)
                /\ \/ result = NoTextMessage
                   \/ result = FailureMessage
                   \/ result = _clean_text(accepted))
    /\ [][StepsLeft(pc') < StepsLeft(pc)]_vars

\* C1: a failure inside the cleaner has been turned into the failure message.
TotalityWitness ==
    pc = "done" /\ fault = "clean" /\ result = FailureMessage

\* C2: once _extract_with_ole has returned, a temporary file it created no
\* longer exists.
TempFileReleased ==
    (pc \in {"tier1", "binary", "tier2", "clean", "done"} /\ tmp_created)
        => ~tmp_exists

\* The conditions under which the container-aware tier gives nothing.
Degrades ==
    \/ ~olefile_ok
    \/ ~isOleFile(byte_stream)
    \/ directory \in {"truncated", "no_stream"}
    \/ fault \in {"mktemp", "write", "isOleFile", "OleFileIO", "openstream",
                  "close", "unlink"}

\* C3: when the library is missing, the input is no container, the stream
\* is absent or an operation of the container-aware tier fails, that tier
\* returns the empty text, the raw-binary tier runs on the whole input and
\* the result is the one of the raw-binary tier alone.
SilentDegradation ==
    (pc = "done" /\ Degrades) =>
        /\ ole_text = <<>>
        /\ binary_ran
        /\ binary_text = IF fault = "binary" THEN <<>>
                         ELSE _parse_stream_data(byte_stream)
        /\ result = IF Len(Strip(binary_text)) <= 10 THEN NoTextMessage
                    ELSE IF fault = "clean" THEN FailureMessage
                    ELSE _clean_text(binary_text)

\* C3: reading the stream failed and the raw-binary text was returned.
SilentDegradationWitness ==
    /\ pc = "done"
    /\ olefile_ok /\ directory = "stream" /\ fault = "openstream"
    /\ binary_ran
    /\ result # NoTextMessage
    /\ result = _clean_text(_parse_stream_data(byte_stream))

\* C4: the container-aware text is accepted (cleaned and returned, the
\* raw-binary tier not run) exactly when it has more than 20 characters
\* after strip: 20 are rejected, 21 accepted.
StrictTier1 ==
    pc = "done" =>
        LET n == Len(Strip(ole_text))
        IN  /\ n > 20 => /\ ~binary_ran
                         /\ result = IF fault = "clean" THEN FailureMessage
                                     ELSE _clean_text(ole_text)
            /\ n <= 20 => binary_ran
            /\ n = 20 => binary_ran
            /\ n = 21 => ~binary_ran

\* C4: a stream text of exactly 21 characters was accepted.
StrictTier1Witness ==
    /\ pc = "done"
    /\ Len(Strip(ole_text)) = 21
    /\ ~binary_ran
    /\ result = _clean_text(ole_text)

\* C5: when neither tier passes its threshold the fixed message is
\* returned; an input of zero bytes only goes through the raw-binary tier
\* and gives the fixed message.
TerminalFailure ==
    pc = "done" =>
        /\ (Len(Strip(ole_text)) <= 20 /\ Len(Strip(binary_text)) <= 10)
               => result = NoTextMessage
        /\ AllZero(byte_stream)
               => (ole_text = <<>> /\ binary_ran /\ result = NoTextMessage)

\* C5: 100 zero bytes went through the raw-binary tier to the fixed message.
TerminalFailureWitness ==
    /\ pc = "done"
    /\ Len(byte_stream) = 100 /\ AllZero(byte_stream)
    /\ binary_ran
    /\ binary_text = <<>>
    /\ result = NoTextMessage

\* C6: _clean_text applied to its own result gives that result again.
CleanIdempotent ==
    (fn = "clean" /\ Len(rets) >= 2) => rets[2] = rets[1]

\* The period-delimited sentences of a text.
OutputUnits(text) ==
    LET n == Len(text)
        Starts(p) == p = 1 \/ text[p - 1] = 46
        Stop(p) == SetMin({j \in p..n : text[j] = 46} \cup {n + 1})
    IN  {Strip(SubSeq(text, p, Stop(p) - 1)) : p \in {q \in 1..n : Starts(q)}}
            \ {<<>>}

\* C7: every sentence of the text _clean_text returns has an ideograph, is
\* not garbled and is longer than 8 characters.
OutputUnitsQualify ==
    (fn = "clean" /\ Len(rets) >= 1) =>
        \A u \in OutputUnits(rets[1]) :
            HasChinese(u) /\ ~_is_garbled_text(u) /\ Len(u) > 8

\* No rule after the ratio applies to the text.
NoLaterRule(text) ==
    /\ CountTrue([i \in 1..Len(text) |-> IsSpecial(text[i])]) <= 3
    /\ ~LetterDigitLetter(text)
    /\ ~SpecialRun(text)
    /\ ~ChineseLatinMix(text)
    /\ ~HasGarbledGlyph(text)

\* C8: a text of at least 3 characters with c ideographs among n > 0
\* non-blank characters is garbled when c/n < 0.4, and is not garbled when
\* c/n = 0.4 and no later rule applies.
RatioBoundary ==
    (fn = "garbled" /\ rets # <<>>) =>
        LET c == CountTrue([i \in 1..Len(arg) |-> IsCJK(arg[i])])
            n == CountTrue([i \in 1..Len(arg) |-> ~IsSpace(arg[i])])
        IN  (Len(arg) >= 3 /\ n > 0) =>
                /\ 5 * c < 2 * n => rets[1] = TRUE
                /\ (5 * c = 2 * n /\ NoLaterRule(arg)) => rets[1] = FALSE

\* C8: 40 ideographs of 100 characters were found not garbled.
RatioBoundaryWitness ==
    /\ fn = "garbled"
    /\ rets = <<FALSE>>
    /\ CountTrue([i \in 1..Len(arg) |-> IsCJK(arg[i])]) = 40
    /\ CountTrue([i \in 1..Len(arg) |-> ~IsSpace(arg[i])]) = 100

\* The text the end-to-end example expects.
E2EExpected ==
    <<20154, 24037, 26234, 33021, 25216, 26415, 27491, 22312, 24555, 36895,
      21457, 23637, 46, 32, 26426, 22120, 23398, 20064, 26159, 20854, 26680,
      24515, 39537, 21160, 21147, 46>>

\* C9: for a container whose stream holds the UTF-16LE bytes of the example,
\* the result is the expected text; the texts of the UTF-8 and GBK attempts
\* follow the primary one in the parsed text and add nothing to the result.
EndToEnd ==
    (/\ pc = "done" /\ olefile_ok /\ directory = "stream"
     /\ stream_data = E2EBytes /\ fault = "none") =>
        LET primary == _extract_meaningful_text(DecodeUtf16le(stream_data))
            second == _extract_meaningful_text(DecodeUtf8(stream_data))
            third == _extract_meaningful_text(DecodeGbk(stream_data))
        IN  /\ second # <<>> /\ third # <<>>
            /\ ole_text = primary \o <<10>> \o second \o <<10>> \o third
            /\ ~binary_ran
            /\ result = E2EExpected
            /\ result = _clean_text(primary)

\* C9: the example went through the container-aware tier to the result.
EndToEndWitness ==
    /\ pc = "done" /\ olefile_ok /\ directory = "stream"
    /\ stream_data = E2EBytes /\ fault = "none"
    /\ result = E2EExpected

\* C10: _extract_meaningful_text applied to its own result gives that
\* result again.
FilterIdempotent ==
    (fn = "filter" /\ Len(rets) >= 2) => rets[2] = rets[1]

====
